---- MODULE Spec2Model ----
(***************************************************************************)
(* EventPlanner backend: plans, memberships (PlanUser), invite tokens      *)
(* (GenerateTokenPlan), chat rooms, rosters (ChatRoomGroup), chat messages *)
(* and notifications, with the REST handlers and the chat consumer that    *)
(* act on them.                                                            *)
(*                                                                         *)
(* Spec      : the REST handlers, one request at a time.                   *)
(* SpecToken : token minting and redemption with a clock.                  *)
(* SpecConc  : membership upserts of two workers, statement by statement.  *)
(* SpecChat  : chat connections, frames, fan-out and notifications.        *)
(***************************************************************************)
EXTENDS Integers, Sequences, FiniteSets, TLC

\* ------------------------------------------------------------------ bounds
NUsers == 2
MaxPlans == 1
MaxCreates == 3
MaxTokens == 1
MaxTime == 2
MaxUsesInput == 2
TokUsers == 4
MaxLen == 2
MaxMessages == 2
NConns == 2
NWorkers == 2
MaxFrames == 2
FriendUsers == 3
FriendPlans == 2
ListPlansCap == 2
ListDays == 2
ListMaxTime == 3
RecvFrames == 3
MaxBulkIds == 2

Users == 1 .. NUsers

\* ------------------------------------------------------- program constants
PENDING == "pending"
APPROVED == "approved"
REJECTED == "rejected"
REMOVED_INTO_CHAT_GROUP == "removed_into_chat_group"
Status == {PENDING, APPROVED, REJECTED, REMOVED_INTO_CHAT_GROUP}

\* expires_at = None
NoExpiry == -1
\* check_auth: maximal age of auth_date, seconds
MaxAuthAge == 86400
\* PlanFriendsBulkTokenAPIView: extra uses of the shared token
BulkExtraUses == 5
\* PlanFriendsBulkTokenAPIView: expires_days of the shared token
BulkExpiryDays == 30

VARIABLES
  now,            \* timezone.now(), in days
  users,          \* CustomUser rows (ids)
  plans,          \* Plan rows
  nextPlanId,
  planUsers,      \* PlanUser rows; id tells apart the rows of one (plan, user) pair
  tokens,         \* GenerateTokenPlan rows
  nextTokenId,
  rooms,          \* ChatRoom rows
  nextRoomId,
  roster,         \* ChatRoomGroup rows
  messages,       \* ChatRoomMessage rows
  nextMessageId,
  notifications,  \* Notification rows
  conns,          \* chat connections (ChatConsumer instances)
  groups,         \* channel layer: room id -> subscribed connections
  inbox,          \* frames sent to each connection's client
  published,      \* events handed to channel_layer.group_send, in order (Receive, which
                  \* sends in one step, logs those of the personal channels only)
  proc            \* workers of SpecConc: position and locals

vars == << now, users, plans, nextPlanId, planUsers, tokens,
           nextTokenId, rooms, nextRoomId, roster, messages, nextMessageId,
           notifications, conns, groups, inbox, published, proc >>

dbVars == << users, plans, nextPlanId, planUsers, tokens,
             nextTokenId, rooms, nextRoomId, roster >>
chatVars == << messages, nextMessageId, notifications, conns, groups, inbox,
              published >>

Workers == 1 .. NWorkers
Conns == 1 .. NConns

NoToken == [id |-> 0, plan |-> 0, created_by |-> 0, expires_at |-> NoExpiry,
            max_uses |-> 0, current_uses |-> 0, is_active |-> FALSE]
\* a worker between requests; tok is the token object a request has loaded
IdleProc == [pc |-> "idle", op |-> "none", user |-> 0, plan |-> 0, room |-> 0,
             tok |-> NoToken, todo |-> {}, created |-> FALSE, conflict |-> FALSE]
ClosedConn == [state |-> "closed", user |-> 0, room |-> 0]

\* ------------------------------------------------------------------ lookups
PlanById(ps, id) == CHOOSE p \in ps : p.id = id
PlanExists(ps, id) == \E p \in ps : p.id = id
RoomById(rs, id) == CHOOSE r \in rs : r.id = id
RoomExists(rs, id) == \E r \in rs : r.id = id
RoomsOfPlan(rs, p) == {r \in rs : r.plan = p}
TokenById(ts, id) == CHOOSE t \in ts : t.id = id
TokenExists(ts, id) == \E t \in ts : t.id = id
RowsFor(rows, p, u) == {r \in rows : r.plan = p /\ r.user = u}

\* ------------------------------------------------------------ Plan, PlanUser
\* Plan.save on insert: count of the creator's plans + 1
UserPlanNumber(ps, u) == Cardinality({p \in ps : p.user = u}) + 1

\* primary key of a new PlanUser row, counted within its (plan, user) pair
NewRowId(rows, p, u) == Cardinality(RowsFor(rows, p, u)) + 1

\* PlanUser.Meta.unique_together = [['plan', 'user']]: may a row be inserted?
UniqueOff(rows, p, u) == TRUE
UniquePlanUser(rows, p, u) == RowsFor(rows, p, u) = {}

\* row.status = s; row.save(update_fields=['status', ...])
SetStatus(rows, p, u, s) ==
  {IF r.plan = p /\ r.user = u THEN [r EXCEPT !.status = s] ELSE r : r \in rows}

\* get_or_create followed by "if not created and plan.user == user: status = APPROVED"
GetOrCreateMemberReset(rows, p, creator, u) ==
  IF RowsFor(rows, p, u) # {}
  THEN SetStatus(rows, p, u, IF creator = u THEN APPROVED ELSE PENDING)
  ELSE rows \cup {[id |-> NewRowId(rows, p, u), plan |-> p, user |-> u,
                   status |-> IF creator = u THEN APPROVED ELSE PENDING]}
GetOrCreateMember(rows, p, creator, u) ==
  IF RowsFor(rows, p, u) # {}
  THEN IF creator = u THEN SetStatus(rows, p, u, APPROVED) ELSE rows
  ELSE rows \cup {[id |-> NewRowId(rows, p, u), plan |-> p, user |-> u,
                   status |-> IF creator = u THEN APPROVED ELSE PENDING]}

\* PlanUser.objects.update_or_create(plan, user, defaults={'status': s})
UpdateOrCreate(rows, p, u, s) ==
  IF RowsFor(rows, p, u) # {} THEN SetStatus(rows, p, u, s)
  ELSE rows \cup {[id |-> NewRowId(rows, p, u), plan |-> p, user |-> u, status |-> s]}

\* signals.ensure_creator_approved, created = True
EnsureCreatorApproved(rows, p, u) ==
  IF RowsFor(rows, p, u) # {} THEN SetStatus(rows, p, u, APPROVED)
  ELSE rows \cup {[id |-> NewRowId(rows, p, u), plan |-> p, user |-> u, status |-> APPROVED]}

\* ChatRoomGroup.objects.get_or_create(user, room) when the plan has a room
JoinRoster(ro, rs, p, u) ==
  ro \cup {[user |-> u, room |-> r.id] : r \in RoomsOfPlan(rs, p)}

\* ------------------------------------------------------- GenerateTokenPlan
Expired(tok, t) == tok.expires_at # NoExpiry /\ t > tok.expires_at

\* GenerateTokenPlan.is_valid
IsValidNoExpiry(tok, t) ==
  IF ~tok.is_active THEN FALSE
  ELSE IF tok.current_uses >= tok.max_uses THEN FALSE
  ELSE TRUE
IsValid(tok, t) ==
  IF ~tok.is_active THEN FALSE
  ELSE IF Expired(tok, t) THEN FALSE
  ELSE IF tok.current_uses >= tok.max_uses THEN FALSE
  ELSE TRUE

\* GenerateTokenPlan.can_be_used
CanBeUsed(tok, t) == IsValid(tok, t)

\* GenerateTokenPlan.save: automatic deactivation before the row is written
TokenSave(tok, t) ==
  LET a1 == IF tok.is_active /\ Expired(tok, t) THEN FALSE ELSE tok.is_active
      a2 == IF a1 /\ tok.current_uses >= tok.max_uses THEN FALSE ELSE a1
  IN [tok EXCEPT !.is_active = a2]

\* GenerateTokenPlan.use_token on the loaded object; the result is what it saves
UseTokenNoCount(tok, t) ==
  IF ~CanBeUsed(tok, t) THEN tok
  ELSE TokenSave(tok, t)
UseToken(tok, t) ==
  IF ~CanBeUsed(tok, t) THEN tok
  ELSE LET n == tok.current_uses + 1
       IN TokenSave([tok EXCEPT !.current_uses = n,
                                !.is_active = IF n >= tok.max_uses THEN FALSE
                                              ELSE tok.is_active], t)

ReplaceToken(ts, tok) == {IF x.id = tok.id THEN tok ELSE x : x \in ts}

\* PlanGenerateTokenAPIView.post: expires_at from expires_days
ExpiresAt(t, days) == IF days > 0 THEN t + days ELSE NoExpiry

\* GenerateTokenPlan.objects.create(...) with is_active=True, current_uses=0
NewToken(id, p, u, exp, maxUses, t) ==
  TokenSave([id |-> id, plan |-> p, created_by |-> u, expires_at |-> exp,
             max_uses |-> maxUses, current_uses |-> 0, is_active |-> TRUE], t)

\* --------------------------------------------------------------- check_auth
CheckAuthStrict(hashOk, age) ==
  IF ~hashOk THEN FALSE
  ELSE IF age >= MaxAuthAge THEN FALSE
  ELSE TRUE
CheckAuth(hashOk, age) ==
  IF ~hashOk THEN FALSE
  ELSE IF age > MaxAuthAge THEN FALSE
  ELSE TRUE

\* TelegramAuthAPIView.post up to the user upsert: the status it returns, 200 = goes on
AuthStatusUnchecked(payload, hashOk, age) ==
  IF payload = "empty" THEN 400
  ELSE IF payload = "nouser" THEN 400
  ELSE IF payload = "badjson" THEN 400
  ELSE IF payload = "noid" THEN 400
  ELSE 200
AuthStatus(payload, hashOk, age) ==
  IF payload = "empty" THEN 400
  ELSE IF payload = "nouser" THEN 400
  ELSE IF payload = "badjson" THEN 400
  ELSE IF ~CheckAuth(hashOk, age) THEN 403
  ELSE IF payload = "noid" THEN 400
  ELSE 200

\* request bodies: << payload, signature matches, age of auth_date >>
AuthInputs ==
  {<< "ok", TRUE, MaxAuthAge >>, << "ok", TRUE, MaxAuthAge + 1 >>,
   << "ok", FALSE, MaxAuthAge >>, << "empty", TRUE, MaxAuthAge >>,
   << "nouser", TRUE, MaxAuthAge >>, << "badjson", TRUE, MaxAuthAge >>,
   << "noid", TRUE, MaxAuthAge >>}

\* ------------------------------------------------- serializers.PlanSerializer
\* reverse accessors of Plan: related_name of PlanUser.plan, GenerateTokenPlan.plan, ChatRoom.plan
PlanRelatedNames == {"plan_users", "invite_tokens", "chat_room"}
\* PlanSerializer.get_tokens reads obj.tokens
PlanSerializerOK == "tokens" \in PlanRelatedNames
PlanResponse(okStatus) == IF PlanSerializerOK THEN okStatus ELSE 500

\* ======================================================== REST handlers
\* TelegramAuthAPIView.post: the status it returns
AuthResult(tg, payload, hashOk, age, inv) ==
  LET st == AuthStatus(payload, hashOk, age) IN
  IF st # 200 THEN st
  ELSE IF inv = 0 \/ ~TokenExists(tokens, inv) THEN 200
  ELSE IF ~CanBeUsed(TokenById(tokens, inv), now) THEN 400
  ELSE 200

\* TelegramAuthAPIView.post
Authenticate(tg, payload, hashOk, age, inv) ==
  /\ UNCHANGED << now, plans, nextPlanId, nextTokenId, rooms, nextRoomId, roster,
                  proc >>
  /\ UNCHANGED chatVars
  /\ IF AuthStatus(payload, hashOk, age) # 200
     THEN UNCHANGED << users, planUsers, tokens >>
     ELSE /\ users' = users \cup {tg}
          /\ IF inv = 0 \/ ~TokenExists(tokens, inv)
             THEN UNCHANGED << planUsers, tokens >>
             ELSE LET tok == TokenById(tokens, inv)
                      plan == PlanById(plans, tok.plan)
                      created == RowsFor(planUsers, plan.id, tg) = {}
                  IN IF ~CanBeUsed(tok, now)
                     THEN UNCHANGED << planUsers, tokens >>
                     ELSE /\ planUsers' = GetOrCreateMember(planUsers, plan.id,
                                                            plan.user, tg)
                          /\ tokens' = IF created
                                       THEN ReplaceToken(tokens, UseToken(tok, now))
                                       ELSE tokens

\* PlanCreateAPIView.post: the status it returns
CreatePlanStatus(valid) == IF ~valid THEN 400 ELSE PlanResponse(201)

\* PlanCreateAPIView.post: ChatRoomGroup.objects.create(user, room)
CreatorRosterNone(u, r) == {}
CreatorRoster(u, r) == {[user |-> u, room |-> r]}

\* Plan.objects.create(user, **validated_data): Plan.save numbers the plan,
\* datetime is the meeting instant of the request, created_at is auto_now_add
NewPlan(id, u, dt, t) ==
  [id |-> id, user |-> u, user_plan_number |-> UserPlanNumber(plans, u),
   name |-> "x", datetime |-> dt, created_at |-> t]

\* PlanCreateAPIView.post with the meeting instant dt; cap bounds the plans ever created
CreatePlanAt(u, valid, cap, dt) ==
  /\ u \in users
  /\ UNCHANGED << now, users, tokens, nextTokenId, proc >>
  /\ UNCHANGED chatVars
  /\ IF ~valid
     THEN UNCHANGED << plans, nextPlanId, planUsers, rooms, nextRoomId, roster >>
     ELSE /\ nextPlanId <= cap
          /\ LET pid == nextPlanId
                 afterSignal == EnsureCreatorApproved(planUsers, pid, u)
             IN /\ plans' = plans \cup {NewPlan(pid, u, dt, now)}
                /\ nextPlanId' = pid + 1
                /\ planUsers' = GetOrCreateMember(afterSignal, pid, u, u)
                /\ rooms' = rooms \cup {[id |-> nextRoomId, plan |-> pid, user |-> u]}
                /\ nextRoomId' = nextRoomId + 1
                /\ roster' = roster \cup CreatorRoster(u, nextRoomId)

\* PlanCreateAPIView.post where the meeting instant plays no part
CreatePlan(u, valid, cap) == CreatePlanAt(u, valid, cap, 0)

\* PlanGenerateTokenAPIView.post: the status it returns
GenerateTokenStatus(u, p) ==
  IF ~PlanExists(plans, p) THEN 404
  ELSE IF PlanById(plans, p).user # u THEN 403
  ELSE 201

\* PlanGenerateTokenAPIView.post
GenerateInviteToken(u, p, maxUses, days) ==
  /\ u \in users
  /\ UNCHANGED << now, users, plans, nextPlanId, rooms, nextRoomId, roster, proc >>
  /\ UNCHANGED chatVars
  /\ IF GenerateTokenStatus(u, p) # 201
     THEN UNCHANGED << planUsers, tokens, nextTokenId >>
     ELSE /\ nextTokenId <= MaxTokens
          /\ planUsers' = GetOrCreateMember(planUsers, p, u, u)
          /\ tokens' = tokens \cup
                {NewToken(nextTokenId, p, u, ExpiresAt(now, days), maxUses, now)}
          /\ nextTokenId' = nextTokenId + 1

\* PlanApproveRejectSerializer: plan_id and token_id are both required=True
ApproveRejectRequired == {"plan_id", "token_id"}

\* the fields a request body of ApproveInvite / RejectInvite can carry
ApproveRejectBodies == SUBSET {"plan_id", "token_id"}

\* serializer.is_valid: every required field is in the body
ApproveRejectValid(body) == ApproveRejectRequired \subseteq body

\* PlanApproveAPIView.put / PlanRejectAPIView.put: the status they return
DecideStatus(p, bodyValid) ==
  IF ~bodyValid THEN 400
  ELSE IF ~PlanExists(plans, p) THEN 400
  ELSE 200

\* PlanApproveAPIView.put / PlanRejectAPIView.put: both upsert the status and join the roster
Decide(s, u, p, bodyValid) ==
  /\ u \in users
  /\ UNCHANGED << now, users, plans, nextPlanId, tokens, nextTokenId, rooms,
                  nextRoomId, proc >>
  /\ UNCHANGED chatVars
  /\ IF DecideStatus(p, bodyValid) # 200
     THEN UNCHANGED << planUsers, roster >>
     ELSE /\ planUsers' = UpdateOrCreate(planUsers, p, u, s)
          /\ roster' = JoinRoster(roster, rooms, p, u)

ApproveInvite(u, p, bodyValid) == Decide(APPROVED, u, p, bodyValid)
RejectInvite(u, p, bodyValid) == Decide(REJECTED, u, p, bodyValid)

\* values of Plan.name in requests; CreatePlan requests carry the first
Names == {"x", "y"}

\* PlanUpdateAPIView.put: the status it returns
UpdatePlanStatus(u, p, valid) ==
  IF ~PlanExists(plans, p) THEN 404
  ELSE IF PlanById(plans, p).user # u THEN 403
  ELSE IF ~valid THEN 400
  ELSE PlanResponse(200)

\* PlanUpdateAPIView.put: plan.save() comes before the response is serialized
UpdatePlan(u, p, valid, nm) ==
  /\ u \in users
  /\ plans' = IF UpdatePlanStatus(u, p, valid) \in {404, 403, 400} THEN plans
              ELSE {IF x.id = p THEN [x EXCEPT !.name = nm] ELSE x : x \in plans}
  /\ UNCHANGED << now, users, nextPlanId, planUsers, tokens, nextTokenId, rooms,
                  nextRoomId, roster, proc >>
  /\ UNCHANGED chatVars

\* on_delete=CASCADE from Plan to ChatRoom
CascadeRoomsNone(p) == {}
CascadeRooms(p) == {r.id : r \in RoomsOfPlan(rooms, p)}

\* PlanDeleteAPIView.delete: the status it returns
DeletePlanStatusAnyone(u, p) ==
  IF ~PlanExists(plans, p) THEN 404
  ELSE 200
DeletePlanStatus(u, p) ==
  IF ~PlanExists(plans, p) THEN 404
  ELSE IF PlanById(plans, p).user # u THEN 403
  ELSE 200

\* PlanDeleteAPIView.delete, with the cascade to memberships, tokens, room, roster, messages
DeletePlan(u, p) ==
  /\ u \in users
  /\ UNCHANGED << now, users, nextPlanId, nextTokenId, nextRoomId,
                  proc, nextMessageId, notifications, conns, groups, inbox,
                  published >>
  /\ IF DeletePlanStatus(u, p) # 200
     THEN UNCHANGED << plans, planUsers, tokens, rooms, roster, messages >>
     ELSE /\ plans' = {x \in plans : x.id # p}
          /\ planUsers' = {x \in planUsers : x.plan # p}
          /\ tokens' = {x \in tokens : x.plan # p}
          /\ rooms' = {x \in rooms : x.plan # p}
          /\ roster' = {x \in roster : x.room \notin CascadeRooms(p)}
          /\ messages' = {x \in messages : x.room \notin CascadeRooms(p)}

\* RemoveUserFromRoomAPIView.delete: the status it returns
RemoveStatusNoOwnerCheck(caller, r, target) ==
  IF ~RoomExists(rooms, r) THEN 404
  ELSE IF target = caller THEN 400
  ELSE IF target \notin users THEN 404
  ELSE IF [user |-> target, room |-> r] \notin roster THEN 400
  ELSE 200
RemoveStatus(caller, r, target) ==
  IF ~RoomExists(rooms, r) THEN 404
  ELSE IF PlanById(plans, RoomById(rooms, r).plan).user # caller THEN 403
  ELSE IF target = caller THEN 400
  ELSE IF target \notin users THEN 404
  ELSE IF [user |-> target, room |-> r] \notin roster THEN 400
  ELSE 200

\* RemoveUserFromRoomAPIView.delete
RemoveMemberFromRoom(caller, r, target) ==
  /\ caller \in users
  /\ UNCHANGED << now, users, plans, nextPlanId, tokens, nextTokenId, rooms,
                  nextRoomId, proc >>
  /\ UNCHANGED chatVars
  /\ IF RemoveStatus(caller, r, target) # 200
     THEN UNCHANGED << planUsers, roster >>
     ELSE LET p == RoomById(rooms, r).plan IN
          /\ planUsers' = UpdateOrCreate(planUsers, p, target, REMOVED_INTO_CHAT_GROUP)
          /\ roster' = roster \ {[user |-> target, room |-> r]}

\* PlanFriendsBulkTokenAPIView.post: memberships of all targets
RECURSIVE BulkMembers(_, _, _, _)
BulkMembers(rows, p, creator, ids) ==
  IF ids = {} THEN rows
  ELSE LET u == CHOOSE x \in ids : TRUE
       IN BulkMembers(GetOrCreateMember(rows, p, creator, u), p, creator, ids \ {u})

\* user_ids of the request body: a list, in which an id may repeat
BulkIds == UNION {[1 .. n -> Users] : n \in 0 .. MaxBulkIds}

Range(f) == {f[i] : i \in DOMAIN f}

\* User.objects.filter(id__in=user_ids)
BulkUsers(ids) == Range(ids) \cap users

\* users.count() != len(user_ids)
BulkNotFound(ids) == Cardinality(BulkUsers(ids)) # Len(ids)

\* PlanFriendsBulkTokenAPIView.post: the status it returns
BulkStatus(u, p, ids, botConfigured) ==
  IF ~PlanExists(plans, p) THEN 404
  ELSE IF PlanById(plans, p).user # u THEN 403
  ELSE IF BulkNotFound(ids) THEN 400
  ELSE IF ~botConfigured THEN 400
  ELSE 200

\* what sending the message to one target comes to: no tg_id / telegram_id,
\* status 200, another status, or requests.post raising
Outcomes == {"no_chat_id", "sent", "refused", "raised"}

\* PlanFriendsBulkTokenAPIView.post, "for user in users": sent_count and the
\* length of errors; "continue" and "except Exception" both go on with the next user
RECURSIVE BulkDeliver(_, _, _)
BulkDeliver(todo, out, acc) ==
  IF todo = {} THEN acc
  ELSE LET t == CHOOSE x \in todo : TRUE
       IN IF out[t] = "sent"
          THEN BulkDeliver(todo \ {t}, out, [acc EXCEPT !.sent_count = @ + 1])
          ELSE BulkDeliver(todo \ {t}, out, [acc EXCEPT !.errors = @ + 1])

\* PlanFriendsBulkTokenAPIView.post: the response, out giving each user's outcome
BulkResult(u, p, ids, botConfigured, out) ==
  LET st == BulkStatus(u, p, ids, botConfigured)
  IN IF st # 200 THEN [status |-> st, sent_count |-> 0, total_users |-> 0, errors |-> 0]
     ELSE [status |-> 200, total_users |-> Cardinality(BulkUsers(ids))]
            @@ BulkDeliver(BulkUsers(ids), out, [sent_count |-> 0, errors |-> 0])

\* PlanFriendsBulkTokenAPIView.post: the token and the memberships are written
\* before the bot credential is looked at
GenerateBulkInviteTokens(u, p, ids, botConfigured) ==
  /\ u \in users
  /\ UNCHANGED << now, users, plans, nextPlanId, rooms, nextRoomId, roster, proc >>
  /\ UNCHANGED chatVars
  /\ \E out \in [Users -> Outcomes] :
        BulkResult(u, p, ids, botConfigured, out).status \in {200, 400, 403, 404}
  /\ IF \/ ~PlanExists(plans, p)
        \/ PlanById(plans, p).user # u
        \/ BulkNotFound(ids)
     THEN UNCHANGED << planUsers, tokens, nextTokenId >>
     ELSE /\ nextTokenId <= MaxTokens
          /\ tokens' = tokens \cup
                {NewToken(nextTokenId, p, u, now + BulkExpiryDays,
                          Len(ids) + BulkExtraUses, now)}
          /\ nextTokenId' = nextTokenId + 1
          /\ planUsers' = BulkMembers(planUsers, p, u, BulkUsers(ids))

\* the clock advances by step days, up to cap
Advance(step, cap) ==
  /\ now + step <= cap
  /\ now' = now + step
  /\ UNCHANGED dbVars
  /\ UNCHANGED chatVars
  /\ UNCHANGED proc

\* the clock advances
Tick == Advance(1, MaxTime)

\* a plain token.save() of a stored token
SaveToken(id) ==
  /\ TokenExists(tokens, id)
  /\ tokens' = ReplaceToken(tokens, TokenSave(TokenById(tokens, id), now))
  /\ UNCHANGED << now, users, plans, nextPlanId, planUsers, nextTokenId, rooms,
                  nextRoomId, roster, proc >>
  /\ UNCHANGED chatVars

\* --------------------------------------------------------------------- Init
Init ==
  /\ now = 0
  /\ users = {}
  /\ plans = {}
  /\ nextPlanId = 1
  /\ planUsers = {}
  /\ tokens = {}
  /\ nextTokenId = 1
  /\ rooms = {}
  /\ nextRoomId = 1
  /\ roster = {}
  /\ messages = {}
  /\ nextMessageId = 1
  /\ notifications = {}
  /\ conns = [c \in Conns |-> ClosedConn]
  /\ groups = [r \in 1 .. MaxPlans + 1 |-> {}]
  /\ inbox = [c \in Conns |-> << >>]
  /\ published = << >>
  /\ proc = [w \in Workers |-> IdleProc]

\* ------------------------------------------------- Spec: the REST handlers
PlanIds == 1 .. MaxPlans + 1
TokenIds == 0 .. MaxTokens + 1

Next ==
  \/ \E u \in Users, in \in AuthInputs, inv \in TokenIds :
        Authenticate(u, in[1], in[2], in[3], inv)
  \/ \E u \in Users, v \in BOOLEAN : CreatePlan(u, v, MaxPlans)
  \/ \E u \in Users, p \in PlanIds, m \in 1 .. MaxUsesInput :
        GenerateInviteToken(u, p, m, 0)
  \/ \E u \in Users, p \in PlanIds, ids \in BulkIds, b \in BOOLEAN :
        GenerateBulkInviteTokens(u, p, ids, b)
  \/ \E u \in Users, p \in PlanIds, b \in ApproveRejectBodies :
        ApproveInvite(u, p, ApproveRejectValid(b))
  \/ \E u \in Users, p \in PlanIds, b \in ApproveRejectBodies :
        RejectInvite(u, p, ApproveRejectValid(b))
  \/ \E u \in Users, p \in PlanIds, v \in BOOLEAN, nm \in Names : UpdatePlan(u, p, v, nm)
  \/ \E u \in Users, p \in PlanIds : DeletePlan(u, p)
  \/ \E u \in Users, r \in PlanIds, t \in Users : RemoveMemberFromRoom(u, r, t)

Spec == Init /\ [][Next]_vars

\* ------------------------------------- SpecPlans: creating and deleting plans
NextPlans ==
  \/ \E u \in Users, in \in AuthInputs : Authenticate(u, in[1], in[2], in[3], 0)
  \/ \E u \in Users, v \in BOOLEAN : CreatePlan(u, v, MaxCreates)
  \/ \E u \in Users, p \in 1 .. MaxCreates + 1 : DeletePlan(u, p)

SpecPlans == Init /\ [][NextPlans]_vars

\* ------------------------ SpecToken: minting and redeeming tokens with a clock
TUsers == 1 .. TokUsers

NextToken ==
  \/ \E u \in TUsers, in \in AuthInputs, inv \in TokenIds :
        Authenticate(u, in[1], in[2], in[3], inv)
  \/ \E u \in TUsers, v \in BOOLEAN : CreatePlan(u, v, MaxPlans)
  \/ \E u \in TUsers, p \in PlanIds, m \in -1 .. MaxUsesInput, d \in {0, 1} :
        GenerateInviteToken(u, p, m, d)
  \/ \E id \in 1 .. MaxTokens : SaveToken(id)
  \/ Tick

SpecToken == Init /\ [][NextToken]_vars

\* --------------- SpecConc: membership upserts of concurrent requests, by statement
\* users 1..NUsers have authenticated and user 1 has created plan 1
InitConc ==
  /\ now = 0
  /\ users = Users
  /\ plans = {[id |-> 1, user |-> 1, user_plan_number |-> 1, name |-> "x",
             datetime |-> 0, created_at |-> 0]}
  /\ nextPlanId = 2
  /\ planUsers = {[id |-> 1, plan |-> 1, user |-> 1, status |-> APPROVED]}
  /\ tokens = {}
  /\ nextTokenId = 1
  /\ rooms = {[id |-> 1, plan |-> 1, user |-> 1]}
  /\ nextRoomId = 2
  /\ roster = {[user |-> 1, room |-> 1]}
  /\ messages = {}
  /\ nextMessageId = 1
  /\ notifications = {}
  /\ conns = [c \in Conns |-> ClosedConn]
  /\ groups = [r \in 1 .. MaxPlans + 1 |-> {}]
  /\ inbox = [c \in Conns |-> << >>]
  /\ published = << >>
  /\ proc = [w \in Workers |-> IdleProc]

Creator(p) == PlanById(plans, p).user

\* defaults={'status': ...} of the get_or_create / update_or_create of each handler
DefaultStatus(op, p, u) ==
  IF op = "ApproveInvite" THEN APPROVED
  ELSE IF op = "RejectInvite" THEN REJECTED
  ELSE IF op = "RemoveMemberFromRoom" THEN REMOVED_INTO_CHAT_GROUP
  ELSE IF Creator(p) = u THEN APPROVED ELSE PENDING

\* the status the handler writes when the row was found, or "" when it writes none
FoundStatus(op, p, u) ==
  IF op = "ApproveInvite" THEN APPROVED
  ELSE IF op = "RejectInvite" THEN REJECTED
  ELSE IF op = "RemoveMemberFromRoom" THEN REMOVED_INTO_CHAT_GROUP
  ELSE IF Creator(p) = u THEN APPROVED ELSE ""

\* TelegramAuthAPIView.post up to PlanUser.objects.get_or_create
StartAuthenticate(w, tg, inv) ==
  /\ proc[w].pc = "idle"
  /\ users' = users \cup {tg}
  /\ IF inv = 0 \/ ~TokenExists(tokens, inv)
     THEN UNCHANGED proc
     ELSE IF ~CanBeUsed(TokenById(tokens, inv), now)
     THEN UNCHANGED proc
     ELSE proc' = [proc EXCEPT ![w] =
            [IdleProc EXCEPT !.pc = "get", !.op = "Authenticate", !.user = tg,
                             !.plan = TokenById(tokens, inv).plan,
                             !.tok = TokenById(tokens, inv)]]
  /\ UNCHANGED << now, plans, nextPlanId, planUsers, tokens, nextTokenId, rooms,
                  nextRoomId, roster >>
  /\ UNCHANGED chatVars

\* PlanApproveAPIView.put / PlanRejectAPIView.put up to PlanUser.objects.update_or_create
StartDecide(w, op, u, p) ==
  /\ proc[w].pc = "idle"
  /\ u \in users
  /\ IF DecideStatus(p, TRUE) # 200
     THEN UNCHANGED proc
     ELSE proc' = [proc EXCEPT ![w] =
            [IdleProc EXCEPT !.pc = "get", !.op = op, !.user = u, !.plan = p]]
  /\ UNCHANGED dbVars
  /\ UNCHANGED now
  /\ UNCHANGED chatVars

\* RemoveUserFromRoomAPIView.delete up to PlanUser.objects.get_or_create
StartRemove(w, caller, r, target) ==
  /\ proc[w].pc = "idle"
  /\ caller \in users
  /\ IF RemoveStatus(caller, r, target) # 200
     THEN UNCHANGED proc
     ELSE proc' = [proc EXCEPT ![w] =
            [IdleProc EXCEPT !.pc = "get", !.op = "RemoveMemberFromRoom",
                             !.user = target, !.plan = RoomById(rooms, r).plan,
                             !.room = r]]
  /\ UNCHANGED dbVars
  /\ UNCHANGED now
  /\ UNCHANGED chatVars

\* PlanFriendsBulkTokenAPIView.post up to the loop over the targets
StartBulk(w, u, p, ids) ==
  /\ proc[w].pc = "idle"
  /\ u \in users
  /\ IF \/ ~PlanExists(plans, p)
        \/ PlanById(plans, p).user # u
        \/ ~(ids \subseteq users)
     THEN UNCHANGED << proc, tokens, nextTokenId >>
     ELSE /\ nextTokenId <= MaxTokens
          /\ tokens' = tokens \cup
                {NewToken(nextTokenId, p, u, now + BulkExpiryDays,
                          Cardinality(ids) + BulkExtraUses, now)}
          /\ nextTokenId' = nextTokenId + 1
          /\ proc' = [proc EXCEPT ![w] =
               [IdleProc EXCEPT !.pc = "next", !.op = "GenerateBulkInviteTokens",
                                !.plan = p, !.todo = ids]]
  /\ UNCHANGED << now, users, plans, nextPlanId, planUsers, rooms, nextRoomId,
                  roster >>
  /\ UNCHANGED chatVars

\* PlanFriendsBulkTokenAPIView.post: for user in users
BulkNext(w) ==
  /\ proc[w].pc = "next"
  /\ IF proc[w].todo = {}
     THEN proc' = [proc EXCEPT ![w] = IdleProc]
     ELSE \E u \in proc[w].todo :
            proc' = [proc EXCEPT ![w] = [@ EXCEPT !.pc = "get", !.user = u,
                                                  !.todo = @ \ {u},
                                                  !.created = FALSE]]
  /\ UNCHANGED dbVars
  /\ UNCHANGED now
  /\ UNCHANGED chatVars

\* get_or_create: self.get(plan, user)
UpsertGet(w) ==
  LET me == proc[w] IN
  /\ me.pc = "get"
  /\ proc' = [proc EXCEPT ![w] =
       [me EXCEPT !.pc = IF RowsFor(planUsers, me.plan, me.user) # {} THEN "after"
                         ELSE "insert",
                  !.created = FALSE]]
  /\ UNCHANGED dbVars
  /\ UNCHANGED now
  /\ UNCHANGED chatVars

\* get_or_create: self.create(...), and on IntegrityError self.get(...) again
UpsertInsert(w) ==
  LET me == proc[w] IN
  /\ me.pc = "insert"
  /\ IF UniquePlanUser(planUsers, me.plan, me.user)
     THEN /\ planUsers' = planUsers \cup
                {[id |-> NewRowId(planUsers, me.plan, me.user), plan |-> me.plan,
                  user |-> me.user,
                  status |-> DefaultStatus(me.op, me.plan, me.user)]}
          /\ proc' = [proc EXCEPT ![w] = [@ EXCEPT !.pc = "after", !.created = TRUE]]
     ELSE /\ planUsers' = planUsers
          /\ proc' = [proc EXCEPT ![w] = [@ EXCEPT !.pc = "after", !.created = FALSE,
                                                   !.conflict = TRUE]]
  /\ UNCHANGED << now, users, plans, nextPlanId, tokens, nextTokenId, rooms,
                  nextRoomId, roster >>
  /\ UNCHANGED chatVars

\* use_token() on the loaded object, then save(update_fields=['current_uses', 'is_active', ...])
WriteBackCountOnly(ts, loaded, t) ==
  IF ~CanBeUsed(loaded, t) THEN ts
  ELSE {IF x.id = loaded.id
        THEN [x EXCEPT !.current_uses = UseToken(loaded, t).current_uses]
        ELSE x : x \in ts}
WriteBackToken(ts, loaded, t) ==
  IF ~CanBeUsed(loaded, t) THEN ts
  ELSE {IF x.id = loaded.id
        THEN [x EXCEPT !.current_uses = UseToken(loaded, t).current_uses,
                       !.is_active = UseToken(loaded, t).is_active]
        ELSE x : x \in ts}

\* what each handler does with (plan_user, created)
UpsertAfter(w) ==
  LET me == proc[w]
      st == FoundStatus(me.op, me.plan, me.user)
  IN
  /\ me.pc = "after"
  /\ planUsers' = IF ~me.created /\ st # ""
                  THEN SetStatus(planUsers, me.plan, me.user, st)
                  ELSE planUsers
  /\ tokens' = IF me.op = "Authenticate" /\ me.created
               THEN WriteBackToken(tokens, me.tok, now)
               ELSE tokens
  /\ proc' = [proc EXCEPT ![w] =
       IF me.op = "Authenticate" THEN IdleProc
       ELSE IF me.op = "GenerateBulkInviteTokens" THEN [me EXCEPT !.pc = "next"]
       ELSE [me EXCEPT !.pc = "roster"]]
  /\ UNCHANGED << now, users, plans, nextPlanId, nextTokenId, rooms, nextRoomId,
                  roster >>
  /\ UNCHANGED chatVars

\* ChatRoomGroup.objects.get_or_create (approve, reject) / chat_room_group.delete() (remove)
UpsertRoster(w) ==
  LET me == proc[w] IN
  /\ me.pc = "roster"
  /\ roster' = IF me.op = "RemoveMemberFromRoom"
               THEN roster \ {[user |-> me.user, room |-> me.room]}
               ELSE JoinRoster(roster, rooms, me.plan, me.user)
  /\ proc' = [proc EXCEPT ![w] = IdleProc]
  /\ UNCHANGED << now, users, plans, nextPlanId, planUsers, tokens, nextTokenId,
                  rooms, nextRoomId >>
  /\ UNCHANGED chatVars

NextConc ==
  \/ \E w \in Workers, u \in Users, inv \in TokenIds : StartAuthenticate(w, u, inv)
  \/ \E w \in Workers, u \in Users, p \in PlanIds : StartDecide(w, "ApproveInvite", u, p)
  \/ \E w \in Workers, u \in Users, p \in PlanIds : StartDecide(w, "RejectInvite", u, p)
  \/ \E w \in Workers, u \in Users, r \in PlanIds, t \in Users : StartRemove(w, u, r, t)
  \/ \E w \in Workers, u \in Users, p \in PlanIds, ids \in SUBSET Users :
        StartBulk(w, u, p, ids)
  \/ \E w \in Workers : BulkNext(w)
  \/ \E w \in Workers : UpsertGet(w)
  \/ \E w \in Workers : UpsertInsert(w)
  \/ \E w \in Workers : UpsertAfter(w)
  \/ \E w \in Workers : UpsertRoster(w)

SpecConc == InitConc /\ [][NextConc]_vars

\* ------------- SpecRedeem: concurrent redemptions of one plan's tokens, by statement
\* users 1..TokUsers have authenticated and user 1 has created plan 1
InitRedeem ==
  /\ now = 0
  /\ users = TUsers
  /\ plans = {[id |-> 1, user |-> 1, user_plan_number |-> 1, name |-> "x",
             datetime |-> 0, created_at |-> 0]}
  /\ nextPlanId = 2
  /\ planUsers = {[id |-> 1, plan |-> 1, user |-> 1, status |-> APPROVED]}
  /\ tokens = {}
  /\ nextTokenId = 1
  /\ rooms = {[id |-> 1, plan |-> 1, user |-> 1]}
  /\ nextRoomId = 2
  /\ roster = {[user |-> 1, room |-> 1]}
  /\ messages = {}
  /\ nextMessageId = 1
  /\ notifications = {}
  /\ conns = [c \in Conns |-> ClosedConn]
  /\ groups = [r \in 1 .. MaxPlans + 1 |-> {}]
  /\ inbox = [c \in Conns |-> << >>]
  /\ published = << >>
  /\ proc = [w \in Workers |-> IdleProc]

NextRedeem ==
  \/ \E m \in 0 .. MaxUsesInput, d \in {0, 1} : GenerateInviteToken(1, 1, m, d)
  \/ \E w \in Workers, u \in TUsers, inv \in 1 .. MaxTokens : StartAuthenticate(w, u, inv)
  \/ \E w \in Workers : UpsertGet(w)
  \/ \E w \in Workers : UpsertInsert(w)
  \/ \E w \in Workers : UpsertAfter(w)
  \/ \E id \in 1 .. MaxTokens : SaveToken(id)
  \/ Tick

SpecRedeem == InitRedeem /\ [][NextRedeem]_vars

\* ------------------- SpecCreate: PlanCreateAPIView.post of concurrent requests, by statement
\* serializer.is_valid, then Plan.objects.create: the INSERT of the plan row (autocommit)
CreateInsertPlan(w, u, valid) ==
  /\ proc[w].pc = "idle"
  /\ u \in users
  /\ IF ~valid
     THEN UNCHANGED << plans, nextPlanId, proc >>
     ELSE /\ nextPlanId <= MaxCreates
          /\ plans' = plans \cup {NewPlan(nextPlanId, u, 0, now)}
          /\ nextPlanId' = nextPlanId + 1
          /\ proc' = [proc EXCEPT ![w] =
               [IdleProc EXCEPT !.pc = "signal", !.op = "CreatePlan", !.user = u,
                                !.plan = nextPlanId]]
  /\ UNCHANGED << now, users, planUsers, tokens, nextTokenId, rooms, nextRoomId, roster >>
  /\ UNCHANGED chatVars

\* post_save of the new plan: ensure_creator_approved
CreateSignal(w) ==
  LET me == proc[w] IN
  /\ me.pc = "signal"
  /\ planUsers' = EnsureCreatorApproved(planUsers, me.plan, me.user)
  /\ proc' = [proc EXCEPT ![w] = [me EXCEPT !.pc = "member"]]
  /\ UNCHANGED << now, users, plans, nextPlanId, tokens, nextTokenId, rooms,
                  nextRoomId, roster >>
  /\ UNCHANGED chatVars

\* the view's own PlanUser.objects.get_or_create and status fix
CreateMember(w) ==
  LET me == proc[w] IN
  /\ me.pc = "member"
  /\ planUsers' = GetOrCreateMember(planUsers, me.plan, me.user, me.user)
  /\ proc' = [proc EXCEPT ![w] = [me EXCEPT !.pc = "room"]]
  /\ UNCHANGED << now, users, plans, nextPlanId, tokens, nextTokenId, rooms,
                  nextRoomId, roster >>
  /\ UNCHANGED chatVars

\* ChatRoom.objects.create(plan, user)
CreateRoom(w) ==
  LET me == proc[w] IN
  /\ me.pc = "room"
  /\ rooms' = rooms \cup {[id |-> nextRoomId, plan |-> me.plan, user |-> me.user]}
  /\ nextRoomId' = nextRoomId + 1
  /\ proc' = [proc EXCEPT ![w] = [me EXCEPT !.pc = "group", !.room = nextRoomId]]
  /\ UNCHANGED << now, users, plans, nextPlanId, planUsers, tokens, nextTokenId, roster >>
  /\ UNCHANGED chatVars

\* ChatRoomGroup.objects.create(user, room), then the response
CreateGroup(w) ==
  LET me == proc[w] IN
  /\ me.pc = "group"
  /\ roster' = roster \cup CreatorRoster(me.user, me.room)
  /\ proc' = [proc EXCEPT ![w] = IdleProc]
  /\ UNCHANGED << now, users, plans, nextPlanId, planUsers, tokens, nextTokenId,
                  rooms, nextRoomId >>
  /\ UNCHANGED chatVars

\* the next statement of the request raises (database error, worker killed):
\* the request ends, what it has written stays (no transaction around the view)
CreateFails(w) ==
  /\ proc[w].op = "CreatePlan"
  /\ proc[w].pc \in {"signal", "member", "room", "group"}
  /\ proc' = [proc EXCEPT ![w] = IdleProc]
  /\ UNCHANGED dbVars
  /\ UNCHANGED now
  /\ UNCHANGED chatVars

NextCreate ==
  \/ \E tg \in Users : Authenticate(tg, "ok", TRUE, MaxAuthAge, 0)
  \/ \E w \in Workers, u \in Users, v \in BOOLEAN : CreateInsertPlan(w, u, v)
  \/ \E w \in Workers : CreateSignal(w)
  \/ \E w \in Workers : CreateMember(w)
  \/ \E w \in Workers : CreateRoom(w)
  \/ \E w \in Workers : CreateGroup(w)
  \/ \E w \in Workers : CreateFails(w)

SpecCreate == Init /\ [][NextCreate]_vars

\* ============================================= SpecChat: the chat consumer
\* characters of a message text: a whitespace character and a printing one
Chars == {" ", "a"}

RECURSIVE LStrip(_)
LStrip(s) ==
  IF s = << >> THEN s
  ELSE IF Head(s) = " " THEN LStrip(Tail(s)) ELSE s

RECURSIVE RStrip(_)
RStrip(s) ==
  IF s = << >> THEN s
  ELSE IF s[Len(s)] = " " THEN RStrip(SubSeq(s, 1, Len(s) - 1)) ELSE s

\* str.strip()
Strip(s) == RStrip(LStrip(s))

\* text frames a client sends: not JSON, JSON without 'message', JSON with a text
Texts == UNION {[1 .. n -> Chars] : n \in 0 .. MaxLen}
Frames ==
  {[json |-> FALSE, message |-> << >>], [json |-> TRUE, message |-> << >>]}
    \cup {[json |-> TRUE, message |-> t] : t \in Texts}

\* iteration orders of a roster query
Orders == {o \in [1 .. NUsers -> Users] : \A i, j \in 1 .. NUsers : o[i] = o[j] => i = j}

\* ChatConsumer.check_room_membership
CheckRoomMembershipAny(u, r) == TRUE
CheckRoomMembership(u, r) ==
  IF ~RoomExists(rooms, r) THEN FALSE
  ELSE [user |-> u, room |-> r] \in roster

\* ChatConsumer.get_room_members, in the order o
RoomMembersAll(r, o) == o
RoomMembers(r, o) ==
  SelectSeq(o, LAMBDA u : [user |-> u, room |-> r] \in roster)

\* ChatRoomDetailAPIView.get: the status it returns
RoomDetailStatus(u, r) ==
  IF ~RoomExists(rooms, r) THEN 404
  ELSE IF [user |-> u, room |-> r] \notin roster THEN 403
  ELSE 200

\* ChatRoomMessagesAPIView.get: the status it returns
RoomMessagesStatus(u, r) ==
  IF ~RoomExists(rooms, r) THEN 404
  ELSE IF [user |-> u, room |-> r] \notin roster THEN 403
  ELSE 200

\* ChatRoomDetailAPIView.get reads only
GetRoomDetail(u, r) ==
  /\ u \in users
  /\ RoomDetailStatus(u, r) \in {200, 403, 404}
  /\ UNCHANGED vars

\* ChatRoomMessagesAPIView.get reads only
ListRoomMessages(u, r) ==
  /\ u \in users
  /\ RoomMessagesStatus(u, r) \in {200, 403, 404}
  /\ UNCHANGED vars

\* ChatConsumer.connect; u = 0 is the anonymous user
Connect(c, u, r) ==
  /\ conns[c].state # "open"
  /\ u \in users \cup {0}
  /\ UNCHANGED dbVars
  /\ UNCHANGED << now, proc, messages, nextMessageId, notifications, published >>
  /\ IF u = 0 \/ ~CheckRoomMembership(u, r)
     THEN /\ conns' = [conns EXCEPT ![c] = [state |-> "rejected", user |-> u, room |-> r]]
          /\ inbox' = [inbox EXCEPT ![c] = << >>]
          /\ UNCHANGED groups
     ELSE /\ groups' = [groups EXCEPT ![r] = @ \cup {c}]
          /\ conns' = [conns EXCEPT ![c] = [state |-> "open", user |-> u, room |-> r]]
          /\ inbox' = [inbox EXCEPT ![c] = << [type |-> "connection_established"] >>]

\* ChatConsumer.disconnect
Disconnect(c) ==
  /\ conns[c].state = "open"
  /\ groups' = [groups EXCEPT ![conns[c].room] = @ \ {c}]
  /\ conns' = [conns EXCEPT ![c] = ClosedConn]
  /\ inbox' = [inbox EXCEPT ![c] = << >>]
  /\ UNCHANGED dbVars
  /\ UNCHANGED << now, proc, messages, nextMessageId, notifications, published >>

\* the frame ChatConsumer.chat_message sends for the event of a saved message
ChatFrame(msg, room) ==
  [type |-> "chat_message", id |-> msg.id, user |-> msg.user, message |-> msg.message,
   sender_type |-> IF room.user = msg.user THEN "initiator" ELSE "receiver",
   created_at |-> msg.created_at]

ErrorFrame(why) == [type |-> "error", message |-> why]

\* the event receive hands to group_send for the room channel, by connection c
ChatEvent(msg, c) ==
  [kind |-> "chat_message", channel |-> msg.room, message |-> msg.id, conn |-> c]

\* the event send_notifications hands to group_send for notifications_<member>
NotificationEvent(m, n) == [kind |-> "notification", channel |-> m, notification |-> n]

\* ChatConsumer.create_notification: the row for member m about message msg
NewNotification(ns, m, sender, msg) ==
  [id |-> Cardinality(ns) + 1, user |-> m, message_id |-> msg.id,
   room_id |-> msg.room, sender_id |-> sender, is_read |-> FALSE]

\* ChatConsumer.send_notifications: rows created and events published, member by member
RECURSIVE SendNotifications(_, _, _, _, _)
SendNotifications(ns, evs, members, sender, msg) ==
  IF members = << >> THEN [rows |-> ns, events |-> evs]
  ELSE LET m == Head(members)
           n == NewNotification(ns, m, sender, msg)
       IN IF m # sender
          THEN SendNotifications(ns \cup {n},
                                 Append(evs, NotificationEvent(m, n.id)),
                                 Tail(members), sender, msg)
          ELSE SendNotifications(ns, evs, Tail(members), sender, msg)

\* ChatConsumer.receive with the handlers of the event it publishes; o is the
\* order in which the roster query returns the members
Receive(c, f, o) ==
  /\ conns[c].state = "open"
  /\ UNCHANGED dbVars
  /\ UNCHANGED << now, proc, conns, groups >>
  /\ LET me == conns[c]
         text == Strip(f.message)
         why == IF ~f.json THEN "json"
                ELSE IF text = << >> THEN "empty"
                ELSE IF ~RoomExists(rooms, me.room) THEN "room"
                ELSE "none"
     IN IF why # "none"
        THEN /\ Len(inbox[c]) < MaxFrames
             /\ inbox' = [inbox EXCEPT ![c] = Append(@, ErrorFrame(why))]
             /\ UNCHANGED << messages, nextMessageId, notifications, published >>
        ELSE LET msg == [id |-> nextMessageId, room |-> me.room, user |-> me.user,
                         message |-> text, created_at |-> now]
                 out == SendNotifications(notifications, published,
                                          RoomMembers(me.room, o), me.user, msg)
             IN /\ nextMessageId <= MaxMessages
                /\ \A k \in groups[me.room] : Len(inbox[k]) < MaxFrames
                /\ messages' = messages \cup {msg}
                /\ nextMessageId' = nextMessageId + 1
                /\ inbox' = [k \in Conns |->
                               IF k \in groups[me.room]
                               THEN Append(inbox[k], ChatFrame(msg, RoomById(rooms, me.room)))
                               ELSE inbox[k]]
                /\ notifications' = out.rows
                /\ published' = out.events

\* NotificationDetailAPIView.get: the status it returns
NotificationStatus(u, id) ==
  IF ~(\E n \in notifications : n.id = id) THEN 404
  ELSE IF (CHOOSE n \in notifications : n.id = id).user # u THEN 403
  ELSE 200

\* notification.is_read = True; notification.save()
MarkReadToggle(ns, id) ==
  {IF n.id = id THEN [n EXCEPT !.is_read = ~@] ELSE n : n \in ns}
MarkRead(ns, id) ==
  {IF n.id = id THEN [n EXCEPT !.is_read = TRUE] ELSE n : n \in ns}

\* NotificationDetailAPIView.get
GetNotification(u, id) ==
  /\ u \in users
  /\ notifications' = IF NotificationStatus(u, id) = 200
                      THEN MarkRead(notifications, id)
                      ELSE notifications
  /\ UNCHANGED dbVars
  /\ UNCHANGED << now, proc, messages, nextMessageId, conns, groups, inbox, published >>

\* NotificationListAPIView.get: the unread notifications of the caller
UnreadOf(u) == {n \in notifications : n.user = u /\ ~n.is_read}

\* NotificationListAPIView.get reads only
ListNotifications(u) ==
  /\ u \in users
  /\ UnreadOf(u) \subseteq notifications
  /\ UNCHANGED vars

RoomIds == 1 .. MaxPlans + 1
NotificationIds == 1 .. MaxMessages * NUsers

NextChat ==
  \/ \E tg \in Users : Authenticate(tg, "ok", TRUE, MaxAuthAge, 0)
  \/ \E u \in Users : CreatePlan(u, TRUE, MaxPlans)
  \/ \E u \in Users, p \in PlanIds : ApproveInvite(u, p, TRUE)
  \/ \E u \in Users, r \in RoomIds, t \in Users : RemoveMemberFromRoom(u, r, t)
  \/ \E u \in Users, p \in PlanIds : DeletePlan(u, p)
  \/ \E u \in Users, r \in RoomIds : GetRoomDetail(u, r)
  \/ \E u \in Users, r \in RoomIds : ListRoomMessages(u, r)
  \/ \E c \in Conns, u \in Users \cup {0}, r \in RoomIds : Connect(c, u, r)
  \/ \E c \in Conns : Disconnect(c)
  \/ \E c \in Conns, f \in Frames, o \in Orders : Receive(c, f, o)

SpecChat == Init /\ [][NextChat]_vars

\* ------------------- SpecNotify: notifications from their creation to their reading
NextNotify ==
  \/ \E tg \in Users : Authenticate(tg, "ok", TRUE, MaxAuthAge, 0)
  \/ \E u \in Users : CreatePlan(u, TRUE, MaxPlans)
  \/ \E u \in Users, p \in PlanIds : ApproveInvite(u, p, TRUE)
  \/ \E c \in Conns, u \in Users, r \in RoomIds : Connect(c, u, r)
  \/ \E c \in Conns : Disconnect(c)
  \/ \E c \in Conns, f \in Frames, o \in Orders : Receive(c, f, o)
  \/ \E u \in Users, id \in NotificationIds : GetNotification(u, id)
  \/ \E u \in Users : ListNotifications(u)

SpecNotify == Init /\ [][NextNotify]_vars

\* --------------- SpecDelete: a plan with token, members and messages, and its deletion
NextDelete ==
  \/ \E tg \in Users, inv \in TokenIds : Authenticate(tg, "ok", TRUE, MaxAuthAge, inv)
  \/ \E u \in Users : CreatePlan(u, TRUE, MaxPlans)
  \/ \E u \in Users, p \in PlanIds : GenerateInviteToken(u, p, MaxUsesInput, 0)
  \/ \E u \in Users, p \in PlanIds : ApproveInvite(u, p, TRUE)
  \/ \E c \in Conns, u \in Users, r \in RoomIds : Connect(c, u, r)
  \/ \E c \in Conns, f \in Frames, o \in Orders : Receive(c, f, o)
  \/ \E u \in Users, p \in PlanIds : DeletePlan(u, p)

SpecDelete == Init /\ [][NextDelete]_vars

\* ------------------------------------ SpecFriends: the two friends listings
\* FriendsListAPIView.get: the plans the caller owns or holds an approved row on
FriendsUserPlans(u) ==
  {p \in plans : \/ p.user = u
                 \/ \E m \in planUsers :
                       m.plan = p.id /\ m.user = u /\ m.status = APPROVED}

\* FriendsListAPIView.get, loop body: whom plan p adds to friends_dict
FriendsOnPlanAnyStatus(p, u) ==
  (IF p.user # u THEN {p.user} ELSE {})
    \cup {m.user : m \in {x \in planUsers : x.plan = p.id /\ x.user # u}}
FriendsOnPlan(p, u) ==
  (IF p.user # u THEN {p.user} ELSE {})
    \cup {m.user : m \in {x \in planUsers : /\ x.plan = p.id
                                            /\ x.status = APPROVED
                                            /\ x.user # u}}

\* FriendsListAPIView.get: friends_dict as friend id |-> plan_ids
ListFriendsResult(u) ==
  [f \in UNION {FriendsOnPlan(p, u) : p \in FriendsUserPlans(u)} |->
     {p.id : p \in {q \in FriendsUserPlans(u) : f \in FriendsOnPlan(q, u)}}]

\* PlanFriendsAPIView.get: the plans the caller owns or holds any row on
PlanFriendsUserPlans(u) ==
  {p \in plans : p.user = u \/ RowsFor(planUsers, p.id, u) # {}}

\* PlanFriendsAPIView.get, loop body: PlanUser rows of the plan except the caller's
PlanFriendsOnPlan(p, u) ==
  {m.user : m \in {x \in planUsers : x.plan = p.id /\ x.user # u}}

\* PlanFriendsAPIView.get: friends_dict as friend id |-> plan_ids
ListPlanFriendsResult(u) ==
  [f \in UNION {PlanFriendsOnPlan(p, u) : p \in PlanFriendsUserPlans(u)} |->
     {p.id : p \in {q \in PlanFriendsUserPlans(u) : f \in PlanFriendsOnPlan(q, u)}}]

\* FriendsListAPIView.get reads only
ListFriends(u) ==
  /\ u \in users
  /\ ListFriendsResult(u) \in [DOMAIN ListFriendsResult(u) -> SUBSET {p.id : p \in plans}]
  /\ UNCHANGED vars

\* PlanFriendsAPIView.get reads only
ListPlanFriends(u) ==
  /\ u \in users
  /\ ListPlanFriendsResult(u) \in
        [DOMAIN ListPlanFriendsResult(u) -> SUBSET {p.id : p \in plans}]
  /\ UNCHANGED vars

FUsers == 1 .. FriendUsers
FPlanIds == 1 .. FriendPlans

NextFriends ==
  \/ \E u \in FUsers, inv \in 0 .. MaxTokens : Authenticate(u, "ok", TRUE, 0, inv)
  \/ \E u \in FUsers : CreatePlan(u, TRUE, FriendPlans)
  \/ \E u \in FUsers, p \in FPlanIds : GenerateInviteToken(u, p, MaxUsesInput, 0)
  \/ \E u \in FUsers, p \in FPlanIds : ApproveInvite(u, p, TRUE)
  \/ \E u \in FUsers, p \in FPlanIds : RejectInvite(u, p, TRUE)
  \/ \E u \in FUsers : ListFriends(u)
  \/ \E u \in FUsers : ListPlanFriends(u)

SpecFriends == Init /\ [][NextFriends]_vars

\* ---------------------------------------- SpecList: PlanListAPIView.get
\* instants of a day a DateTimeField can tell apart around the filter bounds:
\* 00:00:00, 23:59:59 and 23:59:59.999999
TicksPerDay == 3
Instants == 0 .. ListDays * TicksPerDay - 1
Days == 0 .. ListDays - 1

\* a query parameter that is absent (or empty), and one strptime rejects
NoParam == -1
BadDate == -2
DateParams == {NoParam, BadDate} \cup Days
FilterTypes == {"", "new", "date", "other"}

\* "if date:" and datetime.strptime(date, '%Y-%m-%d') not raising ValueError
Given(x) == x # NoParam
Parsed(x) == x \in Days

\* date_obj.replace(hour=0, ...), .replace(hour=23, minute=59, second=59,
\* microsecond=999999) and .replace(hour=23, minute=59, second=59)
StartOfDay(d) == d * TicksPerDay
EndOfDay(d) == d * TicksPerDay + TicksPerDay - 1
EndOfDaySecond(d) == d * TicksPerDay + TicksPerDay - 2

\* timedelta(days=2) of the "new" filter
NewDays == 2

\* PlanListAPIView.get: the two querysets before any filter
ApprovedAndYoursPlans(u) ==
  {p \in plans : \/ p.user = u
                 \/ \E m \in planUsers :
                       m.plan = p.id /\ m.user = u /\ m.status = APPROVED}
PendingPlans(u) ==
  {p \in plans : \E m \in planUsers :
                    m.plan = p.id /\ m.user = u /\ m.status = PENDING}

\* PlanListAPIView.get: the filters, the same on both querysets
DateFilter(ps, d) ==
  {p \in ps : p.datetime >= StartOfDay(d) /\ p.datetime <= EndOfDay(d)}

FilterPlans(ps, ft, date, sd, ed) ==
  IF ft = "new" THEN {p \in ps : p.created_at >= now - NewDays}
  ELSE IF ft = "date" \/ (ft = "" /\ (Given(date) \/ Given(sd) \/ Given(ed)))
  THEN IF Given(date)
       THEN IF Parsed(date) THEN DateFilter(ps, date) ELSE ps
       ELSE LET a == IF Given(sd) /\ Parsed(sd)
                     THEN {p \in ps : p.datetime >= StartOfDay(sd)} ELSE ps
            IN IF Given(ed) /\ Parsed(ed)
               THEN {p \in a : p.datetime <= EndOfDaySecond(ed)} ELSE a
  ELSE ps

\* PlanListAPIView.get: the response; PlanSerializer(many=True) serializes each
\* plan of a bucket, so an empty bucket never reaches get_tokens
ListPlansResult(u, ft, date, sd, ed) ==
  LET a == FilterPlans(ApprovedAndYoursPlans(u), ft, date, sd, ed)
      b == FilterPlans(PendingPlans(u), ft, date, sd, ed)
      st == IF a = {} /\ b = {} THEN 200 ELSE PlanResponse(200)
  IN IF st = 200
     THEN [status |-> 200,
           approved_and_yours_plans |-> {p.id : p \in a},
           pending_plans |-> {p.id : p \in b}]
     ELSE [status |-> st, approved_and_yours_plans |-> {}, pending_plans |-> {}]

\* PlanListAPIView.get reads only
ListPlans(u, ft, date, sd, ed) ==
  /\ u \in users
  /\ ListPlansResult(u, ft, date, sd, ed).status \in {200, 500}
  /\ UNCHANGED vars

NextList ==
  \/ \E u \in Users, inv \in 0 .. MaxTokens : Authenticate(u, "ok", TRUE, 0, inv)
  \/ \E dt \in Instants : CreatePlanAt(1, TRUE, ListPlansCap, dt)
  \/ \E p \in 1 .. ListPlansCap : GenerateInviteToken(1, p, MaxUsesInput, 0)
  \/ \E p \in 1 .. ListPlansCap : ApproveInvite(2, p, TRUE)
  \/ \E u \in Users, ft \in FilterTypes, date \in DateParams, sd \in DateParams,
        ed \in DateParams : ListPlans(u, ft, date, sd, ed)
  \/ Advance(ListMaxTime, ListMaxTime)

SpecList == Init /\ [][NextList]_vars

\* ------------- SpecReceive: ChatConsumer.receive, one awaited call at a time
\* the dispatch loop of a consumer awaits a handler before it takes the next
\* frame: connection c has a handler running
ConsumerBusyNever(c) == FALSE
ConsumerBusy(c) ==
  \E w \in Workers : proc[w].pc # "idle" /\ proc[w].op = "receive" /\ proc[w].conn = c

\* the locals of a running receive
ReceiveProc(pc, c, room, msg, todo, n) ==
  [pc |-> pc, op |-> "receive", conn |-> c, room |-> room, msg |-> msg,
   todo |-> todo, n |-> n]

\* receive up to save_message: the checks, then the row
ReceiveSave(w, c, f) ==
  /\ proc[w].pc = "idle"
  /\ conns[c].state = "open"
  /\ ~ConsumerBusy(c)
  /\ UNCHANGED dbVars
  /\ UNCHANGED << now, conns, groups, notifications, published >>
  /\ LET me == conns[c]
         text == Strip(f.message)
         why == IF ~f.json THEN "json"
                ELSE IF text = << >> THEN "empty"
                ELSE IF ~RoomExists(rooms, me.room) THEN "room"
                ELSE "none"
     IN IF why # "none"
        THEN /\ Len(inbox[c]) < RecvFrames
             /\ inbox' = [inbox EXCEPT ![c] = Append(@, ErrorFrame(why))]
             /\ UNCHANGED << messages, nextMessageId, proc >>
        ELSE LET msg == [id |-> nextMessageId, room |-> me.room, user |-> me.user,
                         message |-> text, created_at |-> now]
             IN /\ nextMessageId <= MaxMessages
                /\ messages' = messages \cup {msg}
                /\ nextMessageId' = nextMessageId + 1
                /\ proc' = [proc EXCEPT ![w] =
                              ReceiveProc("group_send", c, RoomById(rooms, me.room),
                                          msg, << >>, 0)]
                /\ UNCHANGED inbox

\* receive: channel_layer.group_send(self.room_group_name, chat_message event),
\* with the chat_message handlers of the subscribed connections
ReceiveGroupSend(w) ==
  /\ proc[w].pc = "group_send"
  /\ LET p == proc[w]
     IN /\ \A k \in groups[p.room.id] : Len(inbox[k]) < RecvFrames
        /\ inbox' = [k \in Conns |->
                       IF k \in groups[p.room.id]
                       THEN Append(inbox[k], ChatFrame(p.msg, p.room))
                       ELSE inbox[k]]
        /\ published' = Append(published, ChatEvent(p.msg, p.conn))
        /\ proc' = [proc EXCEPT ![w].pc = "members"]
  /\ UNCHANGED dbVars
  /\ UNCHANGED << now, conns, groups, messages, nextMessageId, notifications >>

\* send_notifications: get_room_members, in the order o of the roster query
SendNotificationsMembers(w, o) ==
  /\ proc[w].pc = "members"
  /\ proc' = [proc EXCEPT ![w].pc = "create",
                          ![w].todo = RoomMembers(proc[w].room.id, o)]
  /\ UNCHANGED dbVars
  /\ UNCHANGED << now >>
  /\ UNCHANGED chatVars

\* send_notifications, loop: create_notification for the next member, the
\* sender skipped; the loop ends when no member is left
CreateNotification(w) ==
  /\ proc[w].pc = "create"
  /\ LET p == proc[w]
     IN IF p.todo = << >>
        THEN /\ proc' = [proc EXCEPT ![w] = IdleProc]
             /\ UNCHANGED notifications
        ELSE IF Head(p.todo) = p.msg.user
        THEN /\ proc' = [proc EXCEPT ![w].todo = Tail(p.todo)]
             /\ UNCHANGED notifications
        ELSE LET n == NewNotification(notifications, Head(p.todo), p.msg.user, p.msg)
             IN /\ notifications' = notifications \cup {n}
                /\ proc' = [proc EXCEPT ![w].pc = "publish", ![w].n = n.id]
  /\ UNCHANGED dbVars
  /\ UNCHANGED << now, conns, groups, inbox, messages, nextMessageId, published >>

\* send_notifications, loop: group_send to notifications_<member>
PublishNotification(w) ==
  /\ proc[w].pc = "publish"
  /\ published' = Append(published, NotificationEvent(Head(proc[w].todo), proc[w].n))
  /\ proc' = [proc EXCEPT ![w].pc = "create", ![w].todo = Tail(proc[w].todo)]
  /\ UNCHANGED dbVars
  /\ UNCHANGED << now, conns, groups, inbox, messages, nextMessageId, notifications >>

\* what the handler of an exception sends to the author: receive's handler sends
\* an error frame, send_notifications' own handler only logs
ErrorFrameOfReceive(c) == << ErrorFrame("exception") >>
ErrorFrameOfSendNotifications(c) == << >>

\* send_notifications: an awaited call raises (roster query, plan lookup,
\* create_notification or group_send); "except Exception" logs and returns
SendNotificationsFails(w) ==
  /\ proc[w].pc \in {"members", "create", "publish"}
  /\ inbox' = [inbox EXCEPT ![proc[w].conn] =
                         @ \o ErrorFrameOfSendNotifications(proc[w].conn)]
  /\ proc' = [proc EXCEPT ![w] = IdleProc]
  /\ UNCHANGED dbVars
  /\ UNCHANGED << now, conns, groups, messages, nextMessageId, notifications, published >>

NextReceive ==
  \/ \E tg \in Users : Authenticate(tg, "ok", TRUE, MaxAuthAge, 0)
  \/ CreatePlan(1, TRUE, MaxPlans)
  \/ \E p \in PlanIds : ApproveInvite(2, p, TRUE)
  \/ \E c \in Conns, u \in Users, r \in RoomIds : Connect(c, u, r)
  \/ \E w \in Workers, c \in Conns, f \in Frames : ReceiveSave(w, c, f)
  \/ \E w \in Workers : ReceiveGroupSend(w)
  \/ \E w \in Workers, o \in Orders : SendNotificationsMembers(w, o)
  \/ \E w \in Workers : CreateNotification(w)
  \/ \E w \in Workers : PublishNotification(w)
  \/ \E w \in Workers : SendNotificationsFails(w)

SpecReceive == Init /\ [][NextReceive]_vars

\* ====================================================================== claims
MemberRows(rows, p, u, s) == {r \in RowsFor(rows, p, u) : r.status = s}

\* C1: a CreatePlan that passes validation leaves an approved membership row for
\* (plan, creator), exactly one chat room bound to the plan, and a roster entry for
\* (creator, that room).
C1_CreatePlanProvisions ==
  [][\A u \in Users :
       CreatePlan(u, TRUE, MaxCreates) =>
         /\ \E p \in plans' : p.id = nextPlanId /\ p.user = u
         /\ MemberRows(planUsers', nextPlanId, u, APPROVED) # {}
         /\ Cardinality(RoomsOfPlan(rooms', nextPlanId)) = 1
         /\ \A r \in RoomsOfPlan(rooms', nextPlanId) :
              [user |-> u, room |-> r.id] \in roster']_vars

C1_Witness ==
  \E p \in plans :
    /\ MemberRows(planUsers, p.id, p.user, APPROVED) # {}
    /\ \E r \in rooms : r.plan = p.id /\ [user |-> p.user, room |-> r.id] \in roster

\* C9: no user_plan_number is given to two plans of the same creator (which the
\* k-th plan of a user getting number k implies).
C9_NumberNeverReused ==
  \A p, q \in plans :
    (p.user = q.user /\ p.id # q.id) => p.user_plan_number # q.user_plan_number

\* C7: every existing plan's creator holds an approved membership row on it.
C7_CreatorApproved ==
  \A p \in plans : MemberRows(planUsers, p.id, p.user, APPROVED) # {}

\* C8: a non-creator membership starts as pending, and its status changes only
\* pending -> approved, pending -> rejected or anything -> removed_into_chat_group.
C8_StatusTransitions ==
  [][\A p \in plans, u \in Users :
       (p.user # u /\ PlanExists(plans', p.id)) =>
         \A a \in RowsFor(planUsers', p.id, u) :
           /\ (RowsFor(planUsers, p.id, u) = {}) => a.status = PENDING
           /\ \A b \in RowsFor(planUsers, p.id, u) :
                \/ a.status = b.status
                \/ b.status = PENDING /\ a.status \in {APPROVED, REJECTED}
                \/ a.status = REMOVED_INTO_CHAT_GROUP]_vars

\* C6: RemoveMemberFromRoom by the plan's creator for a non-creator roster member
\* deletes the roster entry and sets the membership to removed_into_chat_group; by
\* the creator for themself it is InvalidInput (400); by anyone else Forbidden (403);
\* a failing call changes neither rosters nor memberships.
C6_RemoveMember ==
  [][\A c \in users, r \in rooms, t \in Users :
       LET creator == PlanById(plans, r.plan).user
           st == RemoveStatus(c, r.id, t)
       IN /\ (c # creator) => st = 403
          /\ (c = creator /\ t = c) => st = 400
          /\ (c = creator /\ t # c /\ [user |-> t, room |-> r.id] \in roster) => st = 200
          /\ RemoveMemberFromRoom(c, r.id, t) =>
               IF st = 200
               THEN /\ [user |-> t, room |-> r.id] \notin roster'
                    /\ RowsFor(planUsers', r.plan, t) # {}
                    /\ \A m \in RowsFor(planUsers', r.plan, t) :
                         m.status = REMOVED_INTO_CHAT_GROUP
               ELSE roster' = roster /\ planUsers' = planUsers]_vars

C6_Witness ==
  \E r \in rooms, m \in planUsers :
    /\ m.plan = r.plan
    /\ m.status = REMOVED_INTO_CHAT_GROUP
    /\ [user |-> m.user, room |-> r.id] \notin roster
    /\ RemoveStatus(m.user, r.id, r.user) = 403
    /\ RemoveStatus(r.user, r.id, r.user) = 400

\* C2: a token with max-uses N that is not expired is active exactly while its
\* counter is below N; each redemption by a user without a membership on the plan
\* then succeeds, creates the membership and adds one to the counter, the flag
\* turning false when the counter reaches N; once the counter is at N a redemption
\* is rejected (400) and creates no membership.
C2_Redemptions ==
  [][/\ \A k \in tokens :
          /\ (~Expired(k, now) /\ k.current_uses < k.max_uses) => k.is_active
          /\ (k.current_uses >= k.max_uses) => ~k.is_active
     /\ \A k \in tokens, u \in TUsers :
          (Authenticate(u, "ok", TRUE, MaxAuthAge, k.id)
             /\ RowsFor(planUsers, k.plan, u) = {}) =>
            IF ~Expired(k, now) /\ k.current_uses < k.max_uses
            THEN /\ AuthResult(u, "ok", TRUE, MaxAuthAge, k.id) = 200
                 /\ RowsFor(planUsers', k.plan, u) # {}
                 /\ TokenById(tokens', k.id).current_uses = k.current_uses + 1
                 /\ TokenById(tokens', k.id).is_active
                      = (k.current_uses + 1 < k.max_uses)
            ELSE /\ AuthResult(u, "ok", TRUE, MaxAuthAge, k.id) = 400
                 /\ planUsers' = planUsers
                 /\ tokens' = tokens]_vars

C2_Witness ==
  \E k \in tokens, u \in users :
    /\ k.max_uses = 2
    /\ k.current_uses = 2
    /\ ~k.is_active
    /\ ~Expired(k, now)
    /\ Cardinality({m \in planUsers : m.plan = k.plan /\ m.status = PENDING}) = 2
    /\ RowsFor(planUsers, k.plan, u) = {}
    /\ AuthResult(u, "ok", TRUE, MaxAuthAge, k.id) = 400

\* C10: a token whose expiry is in the past is not valid and not usable and is
\* rejected (400) by Authenticate, whatever its counter and stored flag; a save of
\* it stores is_active = FALSE.
C10_ExpiredToken ==
  [][/\ \A k \in tokens :
          Expired(k, now) =>
            /\ ~IsValid(k, now)
            /\ ~CanBeUsed(k, now)
            /\ \A u \in TUsers : AuthResult(u, "ok", TRUE, MaxAuthAge, k.id) = 400
     /\ \A k \in tokens :
          (Expired(k, now) /\ SaveToken(k.id)) => ~TokenById(tokens', k.id).is_active
     /\ \A k \in tokens, u \in TUsers :
          (Expired(k, now) /\ Authenticate(u, "ok", TRUE, MaxAuthAge, k.id)) =>
            (planUsers' = planUsers /\ tokens' = tokens)]_vars

C10_Witness ==
  \E k \in tokens :
    /\ Expired(k, now)
    /\ ~k.is_active
    /\ k.current_uses < k.max_uses
    /\ \A u \in TUsers : AuthResult(u, "ok", TRUE, MaxAuthAge, k.id) = 400

\* C3: whatever the interleaving of the get-or-create / update-or-create statements
\* of Authenticate, ApproveInvite, RejectInvite, GenerateBulkInviteTokens and
\* RemoveMemberFromRoom, no (plan, user) pair ever has two membership rows.
C3_OneRowPerPair ==
  \A p \in PlanIds, u \in Users : Cardinality(RowsFor(planUsers, p, u)) <= 1

C3_Witness ==
  \E w \in Workers :
    /\ proc[w].conflict
    /\ proc[w].pc = "after"
    /\ Cardinality(RowsFor(planUsers, proc[w].plan, proc[w].user)) = 1

\* t is s without its leading and trailing whitespace, said without Strip
IsTrimOf(t, s) ==
  /\ t # << >>
  /\ t[1] # " "
  /\ t[Len(t)] # " "
  /\ \E i \in 0 .. Len(s) :
       /\ i + Len(t) <= Len(s)
       /\ SubSeq(s, i + 1, i + Len(t)) = t
       /\ \A k \in 1 .. Len(s) : (k <= i \/ k > i + Len(t)) => s[k] = " "

\* what a frame with a non-blank text must bring about on connection c
ChatFanOut(c) ==
  \E msg \in messages' \ messages :
    /\ messages' = messages \cup {msg}
    /\ msg.id \notin {x.id : x \in messages}
    /\ msg.room = conns[c].room
    /\ msg.user = conns[c].user
    /\ \A k \in Conns :
         IF k \in groups[conns[c].room]
         THEN /\ Len(inbox'[k]) = Len(inbox[k]) + 1
              /\ SubSeq(inbox'[k], 1, Len(inbox[k])) = inbox[k]
              /\ LET e == inbox'[k][Len(inbox'[k])]
                 IN /\ e.type = "chat_message"
                    /\ e.id = msg.id
                    /\ e.message = msg.message
                    /\ e.created_at = msg.created_at
         ELSE inbox'[k] = inbox[k]
    /\ notifications \subseteq notifications'
    /\ \A u \in Users :
         Cardinality({n \in notifications' \ notifications :
                        n.user = u /\ n.message_id = msg.id})
           = IF [user |-> u, room |-> conns[c].room] \in roster /\ u # conns[c].user
             THEN 1 ELSE 0
    /\ \A n \in notifications' \ notifications : n.message_id = msg.id

C5_NoRosterEntry ==
  [][\A u \in users, r \in RoomIds :
       (RoomExists(rooms, r) /\ [user |-> u, room |-> r] \notin roster)
         => /\ RoomDetailStatus(u, r) = 403
            /\ RoomMessagesStatus(u, r) = 403
            /\ \A c \in Conns :
                 Connect(c, u, r)
                   => /\ conns'[c].state = "rejected"
                      /\ c \notin groups'[r]
                      /\ groups' = groups
                      /\ inbox'[c] = << >>]_vars

C5_Witness ==
  \E c \in Conns :
    /\ conns[c].state = "rejected"
    /\ conns[c].user \in users
    /\ RoomExists(rooms, conns[c].room)
    /\ [user |-> conns[c].user, room |-> conns[c].room] \notin roster
    /\ c \notin groups[conns[c].room]
    /\ inbox[c] = << >>
    /\ RoomDetailStatus(conns[c].user, conns[c].room) = 403
    /\ RoomMessagesStatus(conns[c].user, conns[c].room) = 403

\* C11: in every step, whatever the interleaving of the statements of concurrent
\* Authenticate redemptions and of token saves, a stored token that is inactive
\* stays inactive and its use counter does not decrease.
C11_TokenMonotone ==
  [][\A t \in tokens : \A t2 \in tokens' :
       t2.id = t.id => /\ (~t.is_active => ~t2.is_active)
                       /\ t2.current_uses >= t.current_uses]_vars

\* C12: an Authenticate request that reaches the signature and freshness check and
\* fails it (wrong hash, or auth_date older than 86,400 seconds) is answered 403
\* and changes nothing: no user, no membership, no token counter.
C12_FailedCheckChangesNothing ==
  /\ [](\A tg \in Users, payload \in {"ok", "noid"}, hashOk \in BOOLEAN,
           age \in {86400, 86401}, inv \in TokenIds :
          (~hashOk \/ age > 86400) => AuthResult(tg, payload, hashOk, age, inv) = 403)
  /\ [][\A tg \in Users, payload \in {"ok", "noid"}, hashOk \in BOOLEAN,
           age \in {86400, 86401}, inv \in TokenIds :
          (Authenticate(tg, payload, hashOk, age, inv) /\ (~hashOk \/ age > 86400))
            => UNCHANGED vars]_vars

\* a usable token and a user not yet registered, whose failing requests are answered 403
C12_Witness ==
  \E k \in tokens, tg \in Users :
    /\ tg \notin users
    /\ CanBeUsed(k, now)
    /\ RowsFor(planUsers, k.plan, tg) = {}
    /\ AuthResult(tg, "ok", FALSE, 86400, k.id) = 403
    /\ AuthResult(tg, "ok", TRUE, 86401, k.id) = 403

\* C14: a correctly signed payload is accepted when it is at most 86,400 seconds
\* old (the user is registered, the answer is not 403) and answered 403 without
\* any change when it is older; 86,400 is accepted and 86,401 rejected.
C14_FreshnessBoundary ==
  /\ [](\A tg \in Users, age \in {0, 86399, 86400, 86401, 86402} :
          /\ CheckAuth(TRUE, age) = (age <= 86400)
          /\ AuthResult(tg, "ok", TRUE, age, 0) = IF age <= 86400 THEN 200 ELSE 403)
  /\ [][\A tg \in Users, age \in {0, 86399, 86400, 86401, 86402} :
          Authenticate(tg, "ok", TRUE, age, 0)
            => IF age <= 86400 THEN tg \in users' ELSE UNCHANGED vars]_vars

\* a user registered by a payload exactly 86,400 seconds old, another still refused
C14_Witness ==
  \E u \in users, v \in Users :
    /\ v \notin users
    /\ AuthResult(v, "ok", TRUE, 86400, 0) = 200
    /\ AuthResult(v, "ok", TRUE, 86401, 0) = 403
    /\ CheckAuth(TRUE, 86400)
    /\ ~CheckAuth(TRUE, 86401)

\* C13: an Authenticate that presents a usable token (active, not expired, counter
\* below max-uses) leaves exactly one membership for (plan, user). If there was
\* none, the new one is approved for the plan's creator and pending for anyone
\* else and the token's counter grows by one. If there was one, the token is
\* unchanged and a non-creator's membership is unchanged.
C13_CountOnlyNewMembers ==
  [][\A k \in tokens, u \in Users :
       (/\ Authenticate(u, "ok", TRUE, 86400, k.id)
        /\ k.is_active /\ ~Expired(k, now) /\ k.current_uses < k.max_uses)
         => LET creator == PlanById(plans, k.plan).user
                old == RowsFor(planUsers, k.plan, u)
                new == RowsFor(planUsers', k.plan, u)
            IN /\ Cardinality(new) = 1
               /\ \A m \in planUsers : (m.plan # k.plan \/ m.user # u) => m \in planUsers'
               /\ IF old = {}
                  THEN /\ \A m \in new :
                            m.status = IF u = creator THEN APPROVED ELSE PENDING
                       /\ TokenById(tokens', k.id).current_uses = k.current_uses + 1
                  ELSE /\ tokens' = tokens
                       /\ u # creator => new = old]_vars

\* a token redeemed once by a non-creator who has since been approved, still usable
C13_Witness ==
  \E k \in tokens, m \in planUsers :
    /\ k.current_uses = 1
    /\ CanBeUsed(k, now)
    /\ m.plan = k.plan
    /\ m.user # PlanById(plans, k.plan).user
    /\ m.status = APPROVED

\* C15: a notification is unread when it is created; GetNotification by its
\* recipient makes it read; a read notification is read in every later state
\* (a second fetch included); and the flag changes in no step other than a
\* GetNotification of that notification by its recipient.
C15_ReadFlag ==
  /\ [](\A n \in notifications, u \in Users :
          NotificationStatus(u, n.id) = IF n.user = u THEN 200 ELSE 403)
  /\ [][/\ \A n \in notifications' :
            (~ \E o \in notifications : o.id = n.id) => ~n.is_read
        /\ \A o \in notifications :
            \E n \in notifications' :
              /\ n.id = o.id
              /\ o.is_read => n = o
              /\ n.is_read # o.is_read => GetNotification(o.user, o.id)
        /\ \A o \in notifications :
            GetNotification(o.user, o.id)
              => notifications' = (notifications \ {o}) \cup {[o EXCEPT !.is_read = TRUE]}]_vars

\* a notification that was fetched by its recipient, next to one that was not
C15_Witness ==
  \E n, m \in notifications : n.is_read /\ ~m.is_read /\ NotificationStatus(n.user, n.id) = 200

\* C16: every message that a step persists has an author who holds a roster
\* entry for the message's room in the state in which it is persisted; so a user
\* evicted by RemoveMemberFromRoom persists nothing more over a connection opened
\* before.
C16_AuthorOnRoster ==
  [][\A msg \in messages' \ messages :
       [user |-> msg.user, room |-> msg.room] \in roster]_vars

\* C17: in every state, also between the statements of a CreatePlan request and
\* after a request that failed part way, every plan has its creator's membership,
\* its chat room and the creator's roster entry for that room.
C17_CreatePlanAtomic ==
  \A p \in plans :
    /\ RowsFor(planUsers, p.id, p.user) # {}
    /\ \E r \in rooms : r.plan = p.id /\ [user |-> p.user, room |-> r.id] \in roster

\* C18: in every state each membership and each token refers to an existing plan
\* and each room, roster entry and message to an existing plan or room; and a
\* DeletePlan by the plan's creator leaves no plan, membership, token, room,
\* roster entry or message of that plan.
C18_DeleteCascades ==
  /\ [](/\ \A m \in planUsers : PlanExists(plans, m.plan)
        /\ \A k \in tokens : PlanExists(plans, k.plan)
        /\ \A r \in rooms : PlanExists(plans, r.plan)
        /\ \A e \in roster : RoomExists(rooms, e.room)
        /\ \A x \in messages : RoomExists(rooms, x.room))
  /\ [][\A p \in plans :
          DeletePlan(p.user, p.id)
            => LET gone == {r.id : r \in {x \in rooms : x.plan = p.id}}
               IN /\ ~PlanExists(plans', p.id)
                  /\ ~ \E m \in planUsers' : m.plan = p.id
                  /\ ~ \E k \in tokens' : k.plan = p.id
                  /\ ~ \E r \in rooms' : r.plan = p.id
                  /\ ~ \E e \in roster' : e.room \in gone
                  /\ ~ \E x \in messages' : x.room \in gone]_vars

\* nothing is left after the deletion of a plan that had a token, a redeemed
\* invitation and a message
C18_Witness ==
  /\ plans = {} /\ planUsers = {} /\ tokens = {} /\ rooms = {} /\ roster = {}
  /\ messages = {}
  /\ nextPlanId > 1 /\ nextTokenId > 1 /\ nextRoomId > 1 /\ nextMessageId > 1

\* C19: for a registered user who is not the plan's creator, GenerateInviteToken,
\* GenerateBulkInviteTokens, UpdatePlan and DeletePlan answer 403, and a step of
\* one of them leaves plans, memberships, tokens, rooms and rosters as they were.
C19_CreatorOnly ==
  /\ [](\A p \in plans, u \in users :
          u # p.user
            => /\ GenerateTokenStatus(u, p.id) = 403
               /\ \A ids \in BulkIds, b \in BOOLEAN : BulkStatus(u, p.id, ids, b) = 403
               /\ \A v \in BOOLEAN : UpdatePlanStatus(u, p.id, v) = 403
               /\ DeletePlanStatus(u, p.id) = 403)
  /\ [][\A p \in plans, u \in users :
          (/\ u # p.user
           /\ \/ \E m \in 1 .. MaxUsesInput : GenerateInviteToken(u, p.id, m, 0)
              \/ \E ids \in BulkIds, b \in BOOLEAN :
                    GenerateBulkInviteTokens(u, p.id, ids, b)
              \/ \E v \in BOOLEAN, nm \in Names : UpdatePlan(u, p.id, v, nm)
              \/ DeletePlan(u, p.id))
            => UNCHANGED << plans, planUsers, tokens, rooms, roster >>]_vars

\* a plan with a token and a renamed title, and a registered user who is not its creator
C19_Witness ==
  \E p \in plans, u \in users :
    /\ u # p.user
    /\ p.name = "y"
    /\ \E k \in tokens : k.plan = p.id
    /\ DeletePlanStatus(u, p.id) = 403
    /\ DeletePlanStatus(p.user, p.id) = 200

\* C20: a CreatePlan with valid required fields is answered 201 with the plan,
\* whose membership list holds the creator's approved membership and whose
\* approved-member count is 1.
C20_CreatePlanResponse ==
  [][\A u \in Users :
       CreatePlan(u, TRUE, MaxCreates)
         => /\ CreatePlanStatus(TRUE) = 201
            /\ \A p \in plans' \ plans :
                 /\ p.user = u
                 /\ Cardinality({m \in planUsers' : m.plan = p.id /\ m.status = APPROVED}) = 1
                 /\ MemberRows(planUsers', p.id, u, APPROVED) # {}]_vars

\* C21: a request of ApproveInvite or RejectInvite by an authenticated user whose
\* body carries only the id of an existing plan is answered 200
C21_PlanIdAlone ==
  \A u \in users, p \in PlanIds :
     PlanExists(plans, p)
       => DecideStatus(p, ApproveRejectValid({"plan_id"})) = 200

\* C22: ListFriends returns exactly the users other than the caller who are the
\* creator of, or approved on, some plan the caller owns or is approved on, each
\* with exactly the ids of those shared plans (a user who is only pending there
\* is left out); ListPlanFriends returns every other user with a membership of
\* any status on a plan the caller owns or has any membership on
C22_Friends ==
  \A a \in users :
    LET In(q, x) == q.user = x \/ MemberRows(planUsers, q.id, x, APPROVED) # {}
        Shared(f) == {q.id : q \in {p \in plans : In(p, a) /\ In(p, f)}}
        Near(q) == q.user = a \/ RowsFor(planUsers, q.id, a) # {}
    IN /\ DOMAIN ListFriendsResult(a) = {f \in users \ {a} : Shared(f) # {}}
       /\ \A f \in DOMAIN ListFriendsResult(a) : ListFriendsResult(a)[f] = Shared(f)
       /\ DOMAIN ListPlanFriendsResult(a) =
            {f \in users \ {a} :
               \E p \in plans : Near(p) /\ RowsFor(planUsers, p.id, f) # {}}

\* a plan of user 1 with user 2 approved and user 3 pending, and a second plan
\* user 2 shares with user 1: user 1's friends are user 2 alone, with both plans
C22_Witness ==
  /\ \E p \in plans : /\ p.user = 1
                       /\ MemberRows(planUsers, p.id, 2, APPROVED) # {}
                       /\ MemberRows(planUsers, p.id, 3, PENDING) # {}
  /\ DOMAIN ListFriendsResult(1) = {2}
  /\ Cardinality(ListFriendsResult(1)[2]) = 2
  /\ DOMAIN ListPlanFriendsResult(1) = {2, 3}

\* C23: ListPlans with date=D and filter type absent or "date" returns, in both
\* buckets, exactly the plans of the unfiltered bucket whose meeting datetime
\* is on day D; with start_date=S and no date, exactly those not before the
\* start of day S; with filter type "new" the date parameters change nothing
C23_ListPlansFilters ==
  \A u \in users :
    LET all == ListPlansResult(u, "", NoParam, NoParam, NoParam)
        OnDay(ids, d) ==
          {p.id : p \in {q \in plans : q.id \in ids /\ q.datetime \div TicksPerDay = d}}
        From(ids, d) ==
          {p.id : p \in {q \in plans : q.id \in ids /\ q.datetime \div TicksPerDay >= d}}
    IN /\ all.status = 200
       /\ \A ft \in {"", "date"}, d \in Days, sd \in DateParams, ed \in DateParams :
            LET r == ListPlansResult(u, ft, d, sd, ed)
            IN /\ r.status = 200
               /\ r.approved_and_yours_plans = OnDay(all.approved_and_yours_plans, d)
               /\ r.pending_plans = OnDay(all.pending_plans, d)
       /\ \A ft \in {"", "date"}, s \in Days :
            LET r == ListPlansResult(u, ft, NoParam, s, NoParam)
            IN /\ r.status = 200
               /\ r.approved_and_yours_plans = From(all.approved_and_yours_plans, s)
               /\ r.pending_plans = From(all.pending_plans, s)
       /\ \A date \in DateParams, sd \in DateParams, ed \in DateParams :
            ListPlansResult(u, "new", date, sd, ed)
              = ListPlansResult(u, "new", NoParam, NoParam, NoParam)

\* C24: when creating or publishing a notification fails, the chat message stays
\* persisted and broadcast, the author gets no error frame for it, and the
\* author's connection stays open and subscribed
C24_NotificationFailure ==
  [][\A w \in Workers :
       SendNotificationsFails(w) =>
         LET p == proc[w]
         IN /\ p.msg \in messages'
            /\ \E i \in 1 .. Len(published') : published'[i] = ChatEvent(p.msg, p.conn)
            /\ \E i \in 1 .. Len(inbox'[p.conn]) :
                 inbox'[p.conn][i] = ChatFrame(p.msg, p.room)
            /\ inbox' = inbox
            /\ conns' = conns
            /\ conns'[p.conn].state = "open"
            /\ p.conn \in groups'[conns'[p.conn].room]
            /\ proc'[w].pc = "idle"]_vars

\* a notification row whose event was never published, its handler gone: the
\* publish failed; the message is stored and its author got the broadcast only
C24_Witness ==
  \E n \in notifications :
    /\ \A w \in Workers : proc[w].pc = "idle"
    /\ ~ \E i \in 1 .. Len(published) :
           published[i].kind = "notification" /\ published[i].notification = n.id
    /\ \E msg \in messages : msg.id = n.message_id
    /\ \E c \in Conns :
         /\ conns[c].state = "open"
         /\ conns[c].user = n.sender_id
         /\ \E i \in 1 .. Len(inbox[c]) :
              inbox[c][i].type = "chat_message" /\ inbox[c][i].id = n.message_id
         /\ \A i \in 1 .. Len(inbox[c]) : inbox[c][i].type # "error"

\* C25: a notification event of a message is published only after the
\* chat_message event of that message, and the chat_message events of one
\* connection are published in the order in which its frames were processed
C25_PublishOrder ==
  /\ \A i \in 1 .. Len(published) :
       published[i].kind = "notification" =>
         \E n \in notifications :
           /\ n.id = published[i].notification
           /\ \E j \in 1 .. i - 1 :
                /\ published[j].kind = "chat_message"
                /\ published[j].message = n.message_id
  /\ \A i, j \in 1 .. Len(published) :
       (/\ i < j
        /\ published[i].kind = "chat_message"
        /\ published[j].kind = "chat_message"
        /\ published[i].conn = published[j].conn)
         => published[i].message < published[j].message

\* two frames of one connection, both broadcast, and a notification published
C25_Witness ==
  /\ \E i, j \in 1 .. Len(published) :
       /\ i < j
       /\ published[i].kind = "chat_message"
       /\ published[j].kind = "chat_message"
       /\ published[i].conn = published[j].conn
  /\ \E i \in 1 .. Len(published) : published[i].kind = "notification"

\* C26: GenerateBulkInviteTokens with a bot credential and every target id that
\* of an existing user returns success, the sent count plus the number of error
\* entries being the number of targets whatever each delivery comes to, and
\* every target holds a membership on the plan afterwards
C26_BulkDelivery ==
  /\ [](\A p \in plans, ids \in BulkIds, out \in [Users -> Outcomes] :
          (\A i \in 1 .. Len(ids) : ids[i] \in users)
            => LET r == BulkResult(p.user, p.id, ids, TRUE, out)
               IN r.status = 200 /\ r.sent_count + r.errors = Len(ids))
  /\ [][\A p \in plans, ids \in BulkIds :
          (/\ \A i \in 1 .. Len(ids) : ids[i] \in users
           /\ GenerateBulkInviteTokens(p.user, p.id, ids, TRUE))
            => \A i \in 1 .. Len(ids) : RowsFor(planUsers', p.id, ids[i]) # {}]_vars

\* C27: for every token, the memberships newly created by redeeming it never
\* number more than its max-uses, also when the Authenticate calls of several
\* users interleave (in SpecRedeem a membership of anyone but the creator can
\* only come from redeeming the plan's one token)
C27_RedemptionsWithinMaxUses ==
  \A tok \in tokens :
    Cardinality({m \in planUsers : m.plan = tok.plan /\ m.user # tok.created_by})
      <= tok.max_uses

\* C28: every roster entry belongs to a user who is the creator of the room's
\* plan or holds an approved membership on it, and a roster entry comes into
\* existence only in CreatePlan (the creator's) or in ApproveInvite (the caller's)
C28_RosterOnlyApproved ==
  /\ [](\A e \in roster :
          \E r \in rooms :
            /\ r.id = e.room
            /\ \E p \in plans :
                 /\ p.id = r.plan
                 /\ \/ p.user = e.user
                    \/ MemberRows(planUsers, p.id, e.user, APPROVED) # {})
  /\ [][\A e \in roster' \ roster :
          \/ \E v \in BOOLEAN : CreatePlan(e.user, v, MaxPlans)
          \/ \E p \in PlanIds, b \in ApproveRejectBodies :
                ApproveInvite(e.user, p, ApproveRejectValid(b))]_vars

\* C30: every stored invite token with max-uses at least 0 has a use counter
\* between 0 and max-uses, and one whose counter has reached max-uses is
\* inactive, also when redemptions of the same token interleave
C30_CounterWithinBounds ==
  \A tok \in tokens :
    tok.max_uses >= 0
      => /\ tok.current_uses >= 0
         /\ tok.current_uses <= tok.max_uses
         /\ tok.current_uses >= tok.max_uses => ~tok.is_active

\* redemptions that interleaved: more memberships than the counter tells, the
\* counter at max-uses and the token inactive
C30_Witness ==
  \E tok \in tokens :
    /\ tok.max_uses >= 1
    /\ tok.current_uses = tok.max_uses
    /\ ~tok.is_active
    /\ Cardinality({m \in planUsers : m.plan = tok.plan /\ m.user # tok.created_by})
         > tok.current_uses

\* C29: a GenerateBulkInviteTokens call answered 400, because a target id is not
\* that of an existing user or because no bot credential is configured, mints
\* no invite token and creates or changes no membership
C29_FailedBulkWritesNothing ==
  [][\A u \in users, p \in PlanIds, ids \in BulkIds, b \in BOOLEAN :
       (GenerateBulkInviteTokens(u, p, ids, b) /\ BulkStatus(u, p, ids, b) = 400)
         => UNCHANGED << tokens, planUsers >>]_vars

====
